---- MODULE Spec2Model ----
(***************************************************************************)
(* A5 Bypass OSS (src/main.py): the activation worker ActivationThread,    *)
(* the LocalBackendServer it owns and the GUI that starts it; the request  *)
(* handler PlistRequestHandler; and patch_payload_for_local_server.        *)
(*                                                                         *)
(* Spec        the GUI and the activation workers (ActivationThread.run)   *)
(* SpecServer  arbitrary start/stop calls on LocalBackendServer objects    *)
(* SpecHttp    one request served by PlistRequestHandler                   *)
(* SpecPatch   patch_payload_for_local_server applied once and twice       *)
(* SpecWait    one call of ActivationThread.wait_for_device, with a clock   *)
(* SpecGui     as Spec, with as many workers as the GUI is clicked          *)
(***************************************************************************)
EXTENDS Integers, Sequences, FiniteSets, TLC

VARIABLES
    \* ---- MainWindow (GUI thread)
    activateEnabled,  \* self.activate.isEnabled()
    timerOn,          \* self.timer is running
    sigQueue,         \* success/error signals queued for the GUI thread
    nStarted,         \* number of ActivationThread objects created so far
    \* ---- ActivationThread, one per started run
    pc,               \* position of run()
    useLocal,         \* self.use_local_server
    srvRef,           \* self.server: "None" or "obj"
    patched,          \* self.patched_payload: "None" or "path"
    tmpFile,          \* the file mkstemp made for this run: none/exists/removed
    attempt,          \* loop variable of `for attempt in range(5)`
    exc,              \* exception raised inside the try block: "none",
                      \* "BindError", "PatchError", "Timeout" or "Error"
    snapshot,         \* ActivationState read at line 350, "unread" before
    flag,             \* last value should_hactivate returned
    pushes,           \* calls of afc.set_file_contents
    restarts,         \* calls of DiagnosticsService.restart
    queries,          \* calls of should_hactivate
    connects,         \* calls of create_using_usbmux made by run itself
    events,           \* signals emitted by the worker, in order
    backoff,          \* seconds slept at line 368, one entry per rejection
    \* ---- LocalBackendServer objects and TCP port 8080
    lbs,              \* fields server/thread of each LocalBackendServer
    port,             \* the listening socket bound to the port
    lastCall,         \* last start/stop call made (SpecServer)
    nCalls,           \* number of calls made (SpecServer)
    nBinds,           \* HTTPServer(...) constructions attempted (SpecServer)
    nNoops,           \* start() calls that returned at line 261 (SpecServer)
    \* ---- PlistRequestHandler
    disk,             \* state of backend/plists/<model>/<build>/patched.plist
    req,              \* the request being served
    resp,             \* the response sent
    touched,          \* paths given to os.path.exists / open
    \* ---- patch_payload_for_local_server
    payload,          \* content of the source payload
    localUrl,         \* local_url
    out1,             \* content after one patch
    out2,             \* content after patching the patched copy again
    stage,            \* 0: nothing patched, 1: patched once, 2: patched twice
    \* ---- one call of ActivationThread.wait_for_device
    wfdPc,            \* position inside wait_for_device
    timeout,          \* the argument timeout, in seconds
    elapsed,          \* time.monotonic() - start, in seconds
    polls,            \* connection attempts made so far
    handle            \* the attempt whose lockdown was returned, 0: none

guiVars == <<activateEnabled, timerOn, sigQueue, nStarted>>
runVars == <<pc, useLocal, snapshot, backoff, srvRef, patched, tmpFile, attempt, exc, flag,
             pushes, restarts, queries, connects, events, backoff>>
srvVars == <<lbs, port>>
harnessVars == <<lastCall, nCalls, nBinds, nNoops>>
waitVars == <<wfdPc, timeout, elapsed, polls, handle>>
httpVars == <<disk, req, resp, touched>>
patchVars == <<payload, localUrl, out1, out2, stage>>
vars == <<guiVars, runVars, srvVars, harnessVars, waitVars, httpVars, patchVars>>

-----------------------------------------------------------------------------
(* Bounds of the model *)
MaxRuns == 1          \* ActivationThread objects the GUI may create
MaxCalls == 7         \* start/stop calls made in SpecServer
NumServers == 2       \* LocalBackendServer objects in SpecServer
MaxUALen == 5         \* symbols of a User-Agent header
MaxValLen == 4        \* symbols of a value stored in the payload
MaxClicks == 2        \* ActivationThread objects the GUI may create in SpecGui
MaxTimeout == 6       \* largest timeout given to wait_for_device, in seconds
MaxCallTime == 3      \* longest a connection attempt may take, in seconds

\* a loop that runs once too often
MaxAttemptsOffByOne == 5 + 1

(* `for attempt in range(5)` *)
MaxAttempts == 5

(* `time.sleep(5)` after a rejected attempt *)
RetrySleep == 5

(* `time.sleep(2)` between two connection attempts of wait_for_device *)
PollInterval == 2

Workers == 1..MaxRuns

-----------------------------------------------------------------------------
(* LocalBackendServer.  port.state is "free", "listening" (a socket of this *)
(* process is bound to 0.0.0.0:8080) or "foreign" (another process holds    *)
(* it).  port.owner is the LocalBackendServer whose self.server references  *)
(* the HTTPServer owning the socket, 0 when nothing references it any more. *)
(* port.serving tells whether serve_forever is running on it.               *)

NoServer == [server |-> "None", thread |-> "None"]
FreePort == [state |-> "free", owner |-> 0, serving |-> FALSE]
ForeignPort == [state |-> "foreign", owner |-> 0, serving |-> FALSE]

\* LocalBackendServer.is_running
is_running(o) == o.server # "None"

\* start() without the test of line 260: it binds on every call
BindsOnEveryCall(o) == TRUE

\* start() reaches HTTPServer(...) only when `self.server is not None` fails
Binds(o) == ~is_running(o)

\* HTTPServer(('0.0.0.0', port), ...) raises OSError when the port is taken
BindFails(o, p) == Binds(o) /\ p.state # "free"

\* LocalBackendServer.start when it does not raise: the object afterwards
StartObj(o, p) ==
    IF is_running(o) THEN o
    ELSE [server |-> "HTTPServer", thread |-> "Thread"]

\* LocalBackendServer.start when it does not raise: the port afterwards
StartPort(i, o, p) ==
    IF is_running(o) THEN p
    ELSE [state |-> "listening", owner |-> i, serving |-> TRUE]

\* LocalBackendServer.stop: the object afterwards
StopObj(o) == IF is_running(o) THEN NoServer ELSE o

\* LocalBackendServer.stop: the port afterwards.  shutdown() ends
\* serve_forever; nothing closes the socket (no server_close()), it stays
\* bound until the unreferenced HTTPServer object is finalized.
StopPort(i, o, p) ==
    IF is_running(o) /\ p.state = "listening" /\ p.owner = i
    THEN [state |-> "listening", owner |-> 0, serving |-> FALSE]
    ELSE p

\* The interpreter finalizes the unreferenced HTTPServer: its socket closes.
Finalize ==
    /\ port.state = "listening" /\ port.owner = 0
    /\ port' = FreePort
    /\ UNCHANGED <<lbs, guiVars, runVars, harnessVars, waitVars, httpVars, patchVars>>

-----------------------------------------------------------------------------
(* ActivationThread.run.  Every call into the device transport either      *)
(* returns or raises; wait_for_device swallows the transport's exceptions   *)
(* and either returns a live handle or raises TimeoutError.  os.remove and  *)
(* the emission of a signal are taken to succeed; the sleeps take no part.  *)

Ev(kind, text, n) == [kind |-> kind, text |-> text, n |-> n]

\* self.status.emit / self.success.emit / self.error.emit of worker w
Emit(w, es) == events' = [events EXCEPT ![w] = @ \o es]

\* success and error are connected to MainWindow slots: queued to the GUI
Signal(w, kind) == sigQueue' = Append(sigQueue, <<w, kind>>)

\* an exception leaves the try block
Raise(w, kind) ==
    /\ exc' = [exc EXCEPT ![w] = kind]
    /\ pc' = [pc EXCEPT ![w] = "except"]

Goto(w, l) == pc' = [pc EXCEPT ![w] = l]

TransportOutcome == {"ok", "raise"}

\* the values mobilegestalt(...).get('ShouldHactivate') may yield:
\* False, True, None (key absent) or some other value
FlagValues == {"False", "True", "None", "Other"}

\* lines 325-327: self.server = LocalBackendServer(port=8080); start()
ServerStart(w) ==
    /\ pc[w] = "start" /\ useLocal[w]
    /\ srvRef' = [srvRef EXCEPT ![w] = "obj"]
    /\ IF BindFails(lbs[w], port)
       THEN /\ Raise(w, "BindError")
            /\ UNCHANGED <<lbs, port>>
       ELSE /\ lbs' = [lbs EXCEPT ![w] = StartObj(lbs[w], port)]
            /\ port' = StartPort(w, lbs[w], port)
            /\ Goto(w, "resolve")
            /\ UNCHANGED exc
    /\ UNCHANGED <<guiVars, useLocal, snapshot, backoff, patched, tmpFile, attempt, flag, pushes,
                   restarts, queries, connects, events, harnessVars, waitVars, httpVars,
                   patchVars>>

\* lines 330-338: get_local_server_url, the status messages, sleep(1)
Resolve(w) ==
    /\ pc[w] = "resolve"
    /\ \E warn \in BOOLEAN :
         Emit(w, <<Ev("status", "started", 0)>>
                 \o (IF warn THEN <<Ev("status", "platform", 0)>> ELSE <<>>))
    /\ Goto(w, "patch")
    /\ UNCHANGED <<guiVars, useLocal, snapshot, backoff, srvRef, patched, tmpFile, attempt, exc,
                   flag, pushes, restarts, queries, connects, srvVars,
                   harnessVars, waitVars, httpVars, patchVars>>

\* what a call of patch_payload_for_local_server can do:
\*   mkstemp   tempfile.mkstemp raises: no file was made
\*   copy      shutil.copy2 raises (it is outside the try): the file stays
\*   db        sqlite3 connect / listing tables / commit raises: the except
\*             branch removes the file and raises again
\*   ok        the path of the patched copy is returned
PatchOutcomes == {"mkstemp", "copy", "db", "ok"}

\* the temporary file after patch_payload_for_local_server ended with o
PatchTmp(o) ==
    CASE o = "mkstemp" -> "none"
      [] o = "copy"    -> "exists"
      [] o = "db"      -> "removed"
      [] OTHER         -> "exists"

\* a failed patch that is swallowed: the run goes on with the original payload
PatchFallsBack(w) ==
    /\ pc[w] = "patch"
    /\ Emit(w, <<Ev("status", "patching", 0)>>)
    /\ \E o \in PatchOutcomes :
         /\ tmpFile' = [tmpFile EXCEPT ![w] = PatchTmp(o)]
         /\ patched' = [patched EXCEPT ![w] = IF o = "ok" THEN "path" ELSE @]
         /\ exc' = [exc EXCEPT ![w] = IF o = "ok" THEN @ ELSE "PatchError"]
         /\ Goto(w, "connect")
    /\ UNCHANGED <<guiVars, useLocal, snapshot, backoff, srvRef, attempt, flag,
                   pushes, restarts, queries, connects, srvVars, harnessVars,
                   waitVars, httpVars, patchVars>>

\* lines 341-344: status message, then patch the payload
Patch(w) ==
    /\ pc[w] = "patch"
    /\ Emit(w, <<Ev("status", "patching", 0)>>)
    /\ \E o \in PatchOutcomes :
         /\ tmpFile' = [tmpFile EXCEPT ![w] = PatchTmp(o)]
         /\ IF o = "ok"
            THEN /\ patched' = [patched EXCEPT ![w] = "path"]
                 /\ Goto(w, "connect")
                 /\ UNCHANGED exc
            ELSE /\ Raise(w, "PatchError")
                 /\ UNCHANGED patched
    /\ UNCHANGED <<guiVars, useLocal, snapshot, backoff, srvRef, attempt, flag, pushes, restarts,
                   queries, connects, srvVars, harnessVars, waitVars, httpVars,
                   patchVars>>

\* lines 345-348: lockdown = create_using_usbmux()
Connect(w) ==
    /\ \/ pc[w] = "start" /\ ~useLocal[w]
       \/ pc[w] = "connect"
    /\ connects' = [connects EXCEPT ![w] = @ + 1]
    /\ \E r \in TransportOutcome :
         IF r = "ok" THEN Goto(w, "checkstate") /\ UNCHANGED exc
         ELSE Raise(w, "Error")
    /\ UNCHANGED <<guiVars, useLocal, snapshot, backoff, srvRef, patched, tmpFile, attempt, flag,
                   pushes, restarts, queries, events, srvVars, harnessVars, waitVars,
                   httpVars, patchVars>>

\* the check without its `return`: an activated device is pushed to anyway
CheckStateNoReturn(w) ==
    /\ pc[w] = "checkstate"
    /\ \E r \in {"Activated", "Unactivated"} :
         /\ snapshot' = [snapshot EXCEPT ![w] = r]
         /\ Emit(w, <<Ev(IF r = "Activated" THEN "success" ELSE "status",
                         IF r = "Activated" THEN "already" ELSE "activating", 0)>>)
         /\ IF r = "Activated" THEN Signal(w, "success") ELSE UNCHANGED sigQueue
         /\ Goto(w, "push")
    /\ UNCHANGED <<activateEnabled, timerOn, nStarted, useLocal, backoff, srvRef,
                   patched, tmpFile, attempt, exc, flag, pushes, restarts,
                   queries, connects, srvVars, harnessVars, waitVars, httpVars,
                   patchVars>>

\* lines 350-357: the ActivationState check and the status message
CheckState(w) ==
    /\ pc[w] = "checkstate"
    /\ \E r \in {"Activated", "Unactivated", "raise"} :
         CASE r = "Activated" ->
                /\ snapshot' = [snapshot EXCEPT ![w] = r]
                /\ Emit(w, <<Ev("success", "already", 0)>>)
                /\ Signal(w, "success")
                /\ Goto(w, "finally")
                /\ UNCHANGED exc
           [] r = "Unactivated" ->
                /\ snapshot' = [snapshot EXCEPT ![w] = r]
                /\ Emit(w, <<Ev("status", "activating", 0)>>)
                /\ Goto(w, "push")
                /\ UNCHANGED <<exc, sigQueue>>
           [] OTHER ->
                /\ Raise(w, "Error")
                /\ UNCHANGED <<snapshot, events, sigQueue>>
    /\ UNCHANGED <<activateEnabled, timerOn, nStarted, useLocal, backoff, srvRef,
                   patched, tmpFile, attempt, flag, pushes, restarts, queries,
                   connects, srvVars, harnessVars, waitVars, httpVars, patchVars>>

\* lines 306-310: push_payload, the file transfer
Push(w) ==
    /\ pc[w] = "push"
    /\ pushes' = [pushes EXCEPT ![w] = @ + 1]
    /\ \E r \in TransportOutcome :
         IF r = "ok" THEN Goto(w, "restart") /\ UNCHANGED exc
         ELSE Raise(w, "Error")
    /\ UNCHANGED <<guiVars, useLocal, snapshot, backoff, srvRef, patched, tmpFile, attempt, flag,
                   restarts, queries, connects, events, srvVars, harnessVars, waitVars,
                   httpVars, patchVars>>

\* lines 312-313: push_payload, restart() and sleep(10)
Restart(w) ==
    /\ pc[w] = "restart"
    /\ restarts' = [restarts EXCEPT ![w] = @ + 1]
    /\ \E r \in TransportOutcome :
         IF r = "ok" THEN Goto(w, "wait") /\ UNCHANGED exc
         ELSE Raise(w, "Error")
    /\ UNCHANGED <<guiVars, useLocal, snapshot, backoff, srvRef, patched, tmpFile, attempt, flag,
                   pushes, queries, connects, events, srvVars, harnessVars, waitVars,
                   httpVars, patchVars>>

\* line 314 and wait_for_device: a live handle comes back
WaitLive(w) ==
    /\ pc[w] = "wait"
    /\ Goto(w, "query")
    /\ UNCHANGED <<guiVars, useLocal, snapshot, backoff, srvRef, patched, tmpFile, attempt, exc,
                   flag, pushes, restarts, queries, connects, events, srvVars,
                   harnessVars, waitVars, httpVars, patchVars>>

\* a timeout caught inside the loop and counted as a rejected attempt
WaitTimeoutAsRejection(w) ==
    /\ pc[w] = "wait"
    /\ exc' = [exc EXCEPT ![w] = "Timeout"]
    /\ Goto(w, "retry")
    /\ UNCHANGED <<guiVars, useLocal, snapshot, backoff, srvRef, patched, tmpFile,
                   attempt, flag, pushes, restarts, queries, connects, events,
                   srvVars, harnessVars, waitVars, httpVars, patchVars>>

\* line 314 and wait_for_device: TimeoutError leaves push_payload and the loop
WaitTimeout(w) ==
    /\ pc[w] = "wait"
    /\ Raise(w, "Timeout")
    /\ UNCHANGED <<guiVars, useLocal, snapshot, backoff, srvRef, patched, tmpFile, attempt, flag,
                   pushes, restarts, queries, connects, events, srvVars,
                   harnessVars, waitVars, httpVars, patchVars>>

\* a truthiness test, `if self.should_hactivate(lockdown):`
IsTruthy(v) == v \in {"True", "Other"}

\* line 362: `self.should_hactivate(lockdown) is not False`
IsNotFalse(v) == v # "False"

\* lines 316-320 and 362: the readiness query and the decision on its value
Query(w) ==
    /\ pc[w] = "query"
    /\ queries' = [queries EXCEPT ![w] = @ + 1]
    /\ \/ \E v \in FlagValues :
            /\ flag' = [flag EXCEPT ![w] = v]
            /\ Goto(w, IF IsNotFalse(v) THEN "final_restart" ELSE "retry")
            /\ UNCHANGED exc
       \/ Raise(w, "Error") /\ UNCHANGED flag
    /\ UNCHANGED <<guiVars, useLocal, snapshot, backoff, srvRef, patched, tmpFile, attempt,
                   pushes, restarts, connects, events, srvVars, harnessVars, waitVars,
                   httpVars, patchVars>>

\* success reported before the final restart, which may still raise
FinalRestartReportsFirst(w) ==
    /\ pc[w] = "final_restart"
    /\ restarts' = [restarts EXCEPT ![w] = @ + 1]
    /\ Emit(w, <<Ev("success", "done", 0)>>)
    /\ Signal(w, "success")
    /\ \E r \in TransportOutcome :
         IF r = "ok" THEN Goto(w, "finally") /\ UNCHANGED exc
         ELSE Raise(w, "Error")
    /\ UNCHANGED <<activateEnabled, timerOn, nStarted, useLocal, snapshot,
                   backoff, srvRef, patched, tmpFile, attempt, flag, pushes,
                   queries, connects, srvVars, harnessVars, waitVars, httpVars,
                   patchVars>>

\* lines 363-365: the final restart, then success
FinalRestart(w) ==
    /\ pc[w] = "final_restart"
    /\ restarts' = [restarts EXCEPT ![w] = @ + 1]
    /\ \E r \in TransportOutcome :
         IF r = "ok"
         THEN /\ Emit(w, <<Ev("success", "done", 0)>>)
              /\ Signal(w, "success")
              /\ Goto(w, "finally")
              /\ UNCHANGED exc
         ELSE /\ Raise(w, "Error")
              /\ UNCHANGED <<events, sigQueue>>
    /\ UNCHANGED <<activateEnabled, timerOn, nStarted, useLocal, snapshot, backoff, srvRef,
                   patched, tmpFile, attempt, flag, pushes, queries, connects,
                   srvVars, harnessVars, waitVars, httpVars, patchVars>>

\* lines 367-368 and the loop header: the retry message, sleep(5), next attempt
Retry(w) ==
    /\ pc[w] = "retry"
    /\ Emit(w, <<Ev("status", "retry", attempt[w] + 1)>>)
    /\ backoff' = [backoff EXCEPT ![w] = Append(@, RetrySleep)]
    /\ attempt' = [attempt EXCEPT ![w] = @ + 1]
    /\ Goto(w, IF attempt[w] + 1 < MaxAttempts THEN "push" ELSE "exhausted")
    /\ UNCHANGED <<guiVars, useLocal, snapshot, srvRef, patched, tmpFile, exc, flag,
                   pushes, restarts, queries, connects, srvVars, harnessVars, waitVars,
                   httpVars, patchVars>>

\* lines 370-375: the loop ran out
Exhausted(w) ==
    /\ pc[w] = "exhausted"
    /\ Emit(w, <<Ev("error", IF useLocal[w] THEN "failed_usb" ELSE "failed_wifi", 0)>>)
    /\ Signal(w, "error")
    /\ Goto(w, "finally")
    /\ UNCHANGED <<activateEnabled, timerOn, nStarted, useLocal, snapshot, backoff, srvRef,
                   patched, tmpFile, attempt, exc, flag, pushes, restarts,
                   queries, connects, srvVars, harnessVars, waitVars, httpVars,
                   patchVars>>

\* lines 377-382: except TimeoutError / except Exception
Except(w) ==
    /\ pc[w] = "except"
    /\ Emit(w, <<Ev("error", IF exc[w] = "Timeout" THEN "no_reconnect" ELSE "exception", 0)>>)
    /\ Signal(w, "error")
    /\ Goto(w, "finally")
    /\ UNCHANGED <<activateEnabled, timerOn, nStarted, useLocal, snapshot, backoff, srvRef,
                   patched, tmpFile, attempt, exc, flag, pushes, restarts,
                   queries, connects, srvVars, harnessVars, waitVars, httpVars,
                   patchVars>>

\* lines 385-387: finally, stop the local server
FinallyServer(w) ==
    /\ pc[w] = "finally"
    /\ IF srvRef[w] # "None"
       THEN /\ lbs' = [lbs EXCEPT ![w] = StopObj(lbs[w])]
            /\ port' = StopPort(w, lbs[w], port)
            /\ srvRef' = [srvRef EXCEPT ![w] = "None"]
       ELSE UNCHANGED <<lbs, port, srvRef>>
    /\ Goto(w, "finally_file")
    /\ UNCHANGED <<guiVars, useLocal, snapshot, backoff, patched, tmpFile, attempt, exc, flag,
                   pushes, restarts, queries, connects, events, harnessVars, waitVars,
                   httpVars, patchVars>>

\* lines 390-395: finally, remove the patched payload
FinallyFile(w) ==
    /\ pc[w] = "finally_file"
    /\ IF patched[w] # "None" /\ tmpFile[w] = "exists"
       THEN /\ tmpFile' = [tmpFile EXCEPT ![w] = "removed"]
            /\ patched' = [patched EXCEPT ![w] = "None"]
       ELSE UNCHANGED <<tmpFile, patched>>
    /\ Goto(w, "done")
    /\ UNCHANGED <<guiVars, useLocal, snapshot, backoff, srvRef, attempt, exc, flag, pushes,
                   restarts, queries, connects, events, srvVars, harnessVars, waitVars,
                   httpVars, patchVars>>

-----------------------------------------------------------------------------
(* MainWindow *)

\* poll_device: the timer enables the button when a supported device answers
PollDevice ==
    /\ timerOn
    /\ \E supported \in BOOLEAN : activateEnabled' = supported
    /\ UNCHANGED <<timerOn, sigQueue, nStarted, runVars, srvVars, harnessVars, waitVars,
                   httpVars, patchVars>>

\* start_activation: a click on the enabled button starts a new worker
StartActivation ==
    /\ activateEnabled
    /\ nStarted + 1 \in DOMAIN pc
    /\ \E use_local \in BOOLEAN :
         useLocal' = [useLocal EXCEPT ![nStarted + 1] = use_local]
    /\ timerOn' = FALSE
    /\ activateEnabled' = FALSE
    /\ nStarted' = nStarted + 1
    /\ pc' = [pc EXCEPT ![nStarted + 1] = "start"]
    /\ UNCHANGED <<sigQueue, snapshot, backoff, srvRef, patched, tmpFile, attempt, exc,
                   flag, pushes, restarts, queries, connects, events, srvVars,
                   harnessVars, waitVars, httpVars, patchVars>>

\* on_success / on_error: the GUI thread handles a queued signal
OnSignal ==
    /\ sigQueue # <<>>
    /\ sigQueue' = Tail(sigQueue)
    /\ activateEnabled' = TRUE
    /\ timerOn' = TRUE
    /\ UNCHANGED <<nStarted, runVars, srvVars, harnessVars, waitVars, httpVars,
                   patchVars>>

-----------------------------------------------------------------------------
IdleHarness ==
    /\ lastCall = [op |-> "none", inst |-> 0, raised |-> FALSE]
    /\ nCalls = 0
    /\ nBinds = 0
    /\ nNoops = 0
IdleWait ==
    /\ wfdPc = "idle"
    /\ timeout = 0 /\ elapsed = 0
    /\ polls = 0 /\ handle = 0
IdleHttp ==
    /\ disk = "absent"
    /\ req = [method |-> "none", ua |-> <<>>]
    /\ resp = [status |-> 0, body |-> "none"]
    /\ touched = {}
IdlePatch ==
    /\ payload = <<>> /\ localUrl = <<>>
    /\ out1 = <<>> /\ out2 = <<>>
    /\ stage = 0

\* no worker started yet, for workers numbered by W
IdleRunOn(W) ==
    /\ activateEnabled = FALSE
    /\ timerOn = TRUE
    /\ sigQueue = <<>>
    /\ nStarted = 0
    /\ pc = [w \in W |-> "idle"]
    /\ useLocal = [w \in W |-> FALSE]
    /\ snapshot = [w \in W |-> "unread"]
    /\ srvRef = [w \in W |-> "None"]
    /\ patched = [w \in W |-> "None"]
    /\ tmpFile = [w \in W |-> "none"]
    /\ attempt = [w \in W |-> 0]
    /\ exc = [w \in W |-> "none"]
    /\ flag = [w \in W |-> "unread"]
    /\ pushes = [w \in W |-> 0]
    /\ restarts = [w \in W |-> 0]
    /\ queries = [w \in W |-> 0]
    /\ connects = [w \in W |-> 0]
    /\ events = [w \in W |-> <<>>]
    /\ backoff = [w \in W |-> <<>>]

IdleRun == IdleRunOn(Workers)

\* MainWindow.__init__: button disabled, timer started, no worker yet; the
\* port is free or held by another process
Init ==
    /\ IdleRun
    /\ lbs = [w \in Workers |-> NoServer]
    /\ port \in {FreePort, ForeignPort}
    /\ IdleHarness /\ IdleHttp /\ IdlePatch /\ IdleWait

Next ==
    \/ PollDevice
    \/ StartActivation
    \/ OnSignal
    \/ Finalize
    \/ \E w \in Workers :
         \/ ServerStart(w) \/ Resolve(w) \/ Patch(w) \/ Connect(w)
         \/ CheckState(w) \/ Push(w) \/ Restart(w) \/ WaitLive(w)
         \/ WaitTimeout(w) \/ Query(w) \/ FinalRestart(w) \/ Retry(w)
         \/ Exhausted(w) \/ Except(w) \/ FinallyServer(w) \/ FinallyFile(w)

Spec == Init /\ [][Next]_vars

-----------------------------------------------------------------------------
(* SpecServer: a caller makes start() and stop() calls, in any order, on    *)
(* LocalBackendServer objects that all use port 8080.                       *)

Servers == 1..NumServers

Call(op, i, raised) == [op |-> op, inst |-> i, raised |-> raised]

\* LocalBackendServer.start
CallStart(i) ==
    /\ nCalls < MaxCalls
    /\ nCalls' = nCalls + 1
    /\ IF BindFails(lbs[i], port)
       THEN /\ lastCall' = Call("start", i, TRUE)
            /\ UNCHANGED <<lbs, port>>
       ELSE /\ lastCall' = Call("start", i, FALSE)
            /\ lbs' = [lbs EXCEPT ![i] = StartObj(lbs[i], port)]
            /\ port' = StartPort(i, lbs[i], port)
    /\ nBinds' = IF Binds(lbs[i]) THEN nBinds + 1 ELSE nBinds
    /\ nNoops' = IF Binds(lbs[i]) THEN nNoops ELSE nNoops + 1
    /\ UNCHANGED <<guiVars, runVars, waitVars, httpVars, patchVars>>

\* LocalBackendServer.stop
CallStop(i) ==
    /\ nCalls < MaxCalls
    /\ nCalls' = nCalls + 1
    /\ lastCall' = Call("stop", i, FALSE)
    /\ UNCHANGED <<nBinds, nNoops>>
    /\ lbs' = [lbs EXCEPT ![i] = StopObj(lbs[i])]
    /\ port' = StopPort(i, lbs[i], port)
    /\ UNCHANGED <<guiVars, runVars, waitVars, httpVars, patchVars>>

InitServer ==
    /\ IdleRun /\ IdleHttp /\ IdlePatch /\ IdleHarness /\ IdleWait
    /\ lbs = [i \in Servers |-> NoServer]
    /\ port \in {FreePort, ForeignPort}

NextServer ==
    \/ \E i \in Servers : CallStart(i) \/ CallStop(i)
    \/ Finalize

SpecServer == InitServer /\ [][NextServer]_vars

\* C3: when stop() returns on a running server its socket is no longer
\* bound to the port, and stop() on a server that is not running changes
\* nothing.
C3_StopReleasesPort ==
    [][\A i \in Servers :
         (nCalls' = nCalls + 1 /\ lastCall' = Call("stop", i, FALSE)) =>
           IF is_running(lbs[i])
           THEN ~is_running(lbs'[i]) /\ port'.state = "free"
           ELSE lbs' = lbs /\ port' = port]_vars

\* C3, the part of it that holds: stop() leaves the object not running and
\* the accept loop ended, and is a no-op on a server that is not running.
C3_StopEndsServing ==
    [][\A i \in Servers :
         (nCalls' = nCalls + 1 /\ lastCall' = Call("stop", i, FALSE)) =>
           IF is_running(lbs[i])
           THEN ~is_running(lbs'[i]) /\ ~port'.serving
           ELSE lbs' = lbs /\ port' = port]_vars

-----------------------------------------------------------------------------
(* PlistRequestHandler.  A User-Agent header is a sequence of symbols:       *)
(*   "M"  the text model/        "B"  the text build/                       *)
(*   "a"  a letter or digit that is part of neither keyword                 *)
(*   ","  a comma    ".."  two dots    "/"  a slash    " "  a blank         *)
(* A captured token is a sequence of "a", ",", "model" and "build" (the     *)
(* letters of a keyword that follow the token without a separator).         *)

UASym == {"M", "B", "a", ",", "..", "/", " "}
UserAgents == UNION {[1..n -> UASym] : n \in 0..MaxUALen}
Methods == {"GET", "POST", "HEAD"}

\* the one record kept on disk: backend/plists/a/a/patched.plist
Record == << <<"a">>, <<"a">> >>
\* what is at the record's path: nothing, something open() fails on, or a
\* file with one of two contents
FileStates == {"absent", "unreadable", "plistA", "plistB"}

RECURSIVE Capture(_, _, _)
\* the longest match of [a-zA-Z0-9,]+ (comma) or [a-zA-Z0-9]+ at position i
Capture(ua, i, comma) ==
    IF i > Len(ua) THEN <<>>
    ELSE CASE ua[i] = "a" -> <<"a">> \o Capture(ua, i + 1, comma)
           [] ua[i] = "," /\ comma -> <<",">> \o Capture(ua, i + 1, comma)
           [] ua[i] = "M" -> <<"model">>
           [] ua[i] = "B" -> <<"build">>
           [] OTHER -> <<>>

\* re.search(r'model/([a-zA-Z0-9,]+)', ua) and
\* re.search(r'build/([a-zA-Z0-9]+)', ua): group 1 of the leftmost match,
\* <<>> when there is no match
Search(ua, key, comma) ==
    LET hits == {i \in 1..Len(ua) : ua[i] = key /\ Capture(ua, i + 1, comma) # <<>>}
    IN IF hits = {} THEN <<>>
       ELSE Capture(ua, (CHOOSE i \in hits : \A j \in hits : i <= j) + 1, comma)

\* '..' in token
HasDotDot(tok) == \E i \in 1..Len(tok) : tok[i] = ".."

\* os.path.exists / open on <base>/<model>/<build>/patched.plist
FileAt(path, d) == IF path = Record THEN d ELSE "absent"

Response(status, body) == [status |-> status, body |-> body]

\* a handler that tests only that one of the two tokens is there
do_GET_EitherToken(ua, d) ==
    LET model == Search(ua, "M", TRUE)
        build == Search(ua, "B", FALSE)
        path == <<model, build>>
    IN IF model = <<>> /\ build = <<>>
       THEN [resp |-> Response(403, "error"), touched |-> {}]
       ELSE IF FileAt(path, d) = "absent"
       THEN [resp |-> Response(404, "error"), touched |-> {path}]
       ELSE IF FileAt(path, d) = "unreadable"
       THEN [resp |-> Response(500, "error"), touched |-> {path}]
       ELSE [resp |-> Response(200, FileAt(path, d)), touched |-> {path}]

\* PlistRequestHandler.do_GET: the response and the paths it looked at
do_GET(ua, d) ==
    LET model == Search(ua, "M", TRUE)
        build == Search(ua, "B", FALSE)
        path == <<model, build>>
    IN IF model = <<>> \/ build = <<>>
       THEN [resp |-> Response(403, "error"), touched |-> {}]
       ELSE IF HasDotDot(model) \/ HasDotDot(build)
       THEN [resp |-> Response(403, "error"), touched |-> {}]
       ELSE IF FileAt(path, d) = "absent"
       THEN [resp |-> Response(404, "error"), touched |-> {path}]
       ELSE IF FileAt(path, d) = "unreadable"
       THEN [resp |-> Response(500, "error"), touched |-> {path}]
       ELSE [resp |-> Response(200, FileAt(path, d)), touched |-> {path}]

\* the class defines do_GET only: for any other method
\* BaseHTTPRequestHandler answers 501 (Unsupported method)
Handle(method, ua, d) ==
    IF method = "GET" THEN do_GET(ua, d)
    ELSE [resp |-> Response(501, "error"), touched |-> {}]

NoRequest == [method |-> "none", ua |-> <<>>]
NoResponse == Response(0, "none")

\* one request is read and answered
Serve ==
    /\ req = NoRequest
    /\ \E m \in Methods, ua \in UserAgents :
         /\ req' = [method |-> m, ua |-> ua]
         /\ resp' = Handle(m, ua, disk).resp
         /\ touched' = Handle(m, ua, disk).touched
    /\ UNCHANGED <<disk, guiVars, runVars, srvVars, harnessVars, waitVars, patchVars>>

InitHttp ==
    /\ IdleRun /\ IdleHarness /\ IdlePatch /\ IdleWait
    /\ lbs = [w \in Workers |-> NoServer]
    /\ port = FreePort
    /\ disk \in FileStates
    /\ req = NoRequest /\ resp = NoResponse /\ touched = {}

NextHttp == Serve

SpecHttp == InitHttp /\ [][NextHttp]_vars

\* the text after an occurrence of model/ or build/ up to the next blank
RECURSIVE RawToken(_, _)
RawToken(ua, i) ==
    IF i > Len(ua) \/ ua[i] = " " THEN <<>>
    ELSE <<ua[i]>> \o RawToken(ua, i + 1)

\* some model/ or build/ of the header is followed by a token with '..'
TraversalInToken(ua) ==
    \E i \in 1..Len(ua) : ua[i] \in {"M", "B"} /\ HasDotDot(RawToken(ua, i + 1))

SafeToken(tok) ==
    /\ tok # <<>>
    /\ \A i \in 1..Len(tok) : tok[i] \in {"a", ",", "model", "build"}

C8_OtherMethodForbidden ==
    req.method \in Methods \ {"GET"} => resp.status = 403

\* C9: a GET whose model or build token contains '..' is answered 403, and
\* every path the handler tests or opens is <base>/<model>/<build>/
\* patched.plist with model and build free of '/' and '..'.
C9_TraversalForbidden ==
    req.method = "GET" =>
      /\ TraversalInToken(req.ua) => resp.status = 403
      /\ \A path \in touched : SafeToken(path[1]) /\ SafeToken(path[2])

-----------------------------------------------------------------------------
(* patch_payload_for_local_server.  A value of the payload database is a    *)
(* sequence of symbols:                                                     *)
(*   "H"  the text http: or https:      "/"  a slash     " "  whitespace    *)
(*   "x"  any other character of a host name or a path                      *)
(*   "q"  a character that ends the host and port of a URL without being a  *)
(*        slash or whitespace: the ? of a query, #, a quote, <              *)
(*   "L"  a character of the local host name (only target URLs have it)     *)
(*   "?"  a byte that is not valid UTF-8 (only in bytes values)             *)
(* so that <<"H", "/", "/", "x", "/", "x">> is a URL with a one-letter path. *)
(* The payload is a sequence of cells; a cell is one value with the         *)
(* declared type of its column and whether its table can be queried.        *)

StrSym == {"H", "x", "q", "/", " "}
ByteSym == StrSym \cup {"?"}
ColTypes == {"TEXT", "BLOB", "INTEGER"}

SeqsUpTo(S, n) == UNION {[1..k -> S] : k \in 0..n}

Cells ==
    [tableOk : BOOLEAN, coltype : ColTypes, kind : {"str"},
     data : SeqsUpTo(StrSym, MaxValLen)]
    \cup [tableOk : BOOLEAN, coltype : ColTypes, kind : {"bytes"},
          data : SeqsUpTo(ByteSym, MaxValLen)]
    \cup [tableOk : BOOLEAN, coltype : ColTypes, kind : {"int", "null"},
          data : {<<>>}]

Scheme == <<"H", "/", "/">>
\* target URLs: scheme and host; the same with a trailing slash; with a path
TargetURLs ==
    {Scheme \o <<"L">>, Scheme \o <<"L", "/">>, Scheme \o <<"L", "/", "x">>}

\* [^/\s]
InClass(c) == c \notin {"/", " "}

\* value.decode('utf-8', errors='ignore'): invalid bytes are dropped
Decode(data) == SelectSeq(data, LAMBDA c : c # "?")

\* 'http://' in value_str or 'https://' in value_str
HasScheme(v) ==
    \E i \in 1..Len(v) :
      i + 2 <= Len(v) /\ v[i] = "H" /\ v[i + 1] = "/" /\ v[i + 2] = "/"

RECURSIVE ClassRunEnd(_, _)
\* the last position of the run of [^/\s] characters that starts at i
ClassRunEnd(v, i) ==
    IF i + 1 <= Len(v) /\ InClass(v[i + 1]) THEN ClassRunEnd(v, i + 1) ELSE i

\* the end of the match of https?://[^/\s]+ that starts at i, 0 if none
MatchEnd(v, i) ==
    IF /\ i + 3 <= Len(v)
       /\ v[i] = "H" /\ v[i + 1] = "/" /\ v[i + 2] = "/"
       /\ InClass(v[i + 3])
    THEN ClassRunEnd(v, i + 3)
    ELSE 0

RECURSIVE SubFrom(_, _, _)
SubFrom(v, i, url) ==
    IF i > Len(v) THEN <<>>
    ELSE IF MatchEnd(v, i) > 0
         THEN url \o SubFrom(v, MatchEnd(v, i) + 1, url)
         ELSE <<v[i]>> \o SubFrom(v, i + 1, url)

\* a replacement that keeps a separator after the host
ReSubKeepSlash(v, url) == SubFrom(v, 1, url \o <<"/">>)

\* re.sub(r'https?://[^/\s]+', local_url, value_str)
ReSub(v, url) == SubFrom(v, 1, url)

\* lines 160-182: the new value of one row (unchanged when not rewritten)
PatchValue(kind, data, url) ==
    IF data # <<>> /\ kind \in {"str", "bytes"}
    THEN LET value_str == IF kind = "bytes" THEN Decode(data) ELSE data
         IN IF HasScheme(value_str) THEN ReSub(value_str, url) ELSE data
    ELSE data

\* lines 143-185: a table that raises is skipped; only TEXT, VARCHAR and
\* BLOB columns are scanned
PatchCell(c, url) ==
    IF c.tableOk /\ c.coltype \in {"TEXT", "BLOB"}
    THEN [c EXCEPT !.data = PatchValue(c.kind, c.data, url)]
    ELSE c

\* the content of the copy returned by patch_payload_for_local_server
PatchPayload(p, url) == [i \in DOMAIN p |-> PatchCell(p[i], url)]

\* patch(P, U)
PatchOnce ==
    /\ stage = 0
    /\ out1' = PatchPayload(payload, localUrl)
    /\ stage' = 1
    /\ UNCHANGED <<payload, localUrl, out2, guiVars, runVars, srvVars,
                   harnessVars, waitVars, httpVars>>

\* patch(patch(P, U), U)
PatchAgain ==
    /\ stage = 1
    /\ out2' = PatchPayload(out1, localUrl)
    /\ stage' = 2
    /\ UNCHANGED <<payload, localUrl, out1, guiVars, runVars, srvVars,
                   harnessVars, waitVars, httpVars>>

InitPatch ==
    /\ IdleRun /\ IdleHarness /\ IdleHttp /\ IdleWait
    /\ lbs = [w \in Workers |-> NoServer]
    /\ port = FreePort
    /\ payload \in {<<c>> : c \in Cells}
    /\ localUrl \in TargetURLs
    /\ out1 = <<>> /\ out2 = <<>>
    /\ stage = 0

NextPatch == PatchOnce \/ PatchAgain

SpecPatch == InitPatch /\ [][NextPatch]_vars

\* the target is scheme, host and port and nothing more: the whole of it
\* is one match of https?://[^/\s]+
IsOrigin(url) == MatchEnd(url, 1) = Len(url)

\* C10 as stated: for every payload and every target URL, patching the
\* patched payload again leaves every value as it is.
C10_Idempotent ==
    stage = 2 => out2 = out1

\* C10 amended: the same for every target URL that is scheme, host and
\* port only (no path, no trailing slash, no whitespace).
C10_IdempotentForOrigin ==
    (stage = 2 /\ IsOrigin(localUrl)) => out2 = out1

C10_Witness ==
    /\ stage = 2 /\ IsOrigin(localUrl)
    /\ out1 # payload /\ out2 = out1
    /\ payload[1].kind = "bytes"

-----------------------------------------------------------------------------
(* Properties of ActivationThread.run (Spec) *)

LastEvent(w) == events[w][Len(events[w])]
Emitted(w, kind) == \E i \in 1..Len(events[w]) : events[w][i].kind = kind
IsRetry(e) == e.kind = "status" /\ e.text = "retry"
\* attempts after which the readiness flag was read as False
Rejected(w) == Len(SelectSeq(events[w], IsRetry))
EndsWith(w, kind, text) ==
    /\ events[w] # <<>>
    /\ LastEvent(w).kind = kind
    /\ LastEvent(w).text = text

\* C1: a run pushes the payload at most 5 times; a finished run in which
\* every push attempt was followed by a readiness flag read as False has
\* pushed exactly 5 times and ended with the error event, without success.
C1_AtMostFivePushes ==
    \A w \in Workers :
      /\ pushes[w] <= 5
      /\ (pc[w] = "done" /\ pushes[w] >= 1 /\ Rejected(w) = pushes[w])
           => /\ pushes[w] = 5
              /\ LastEvent(w).kind = "error"
              /\ ~Emitted(w, "success")

C1_Witness ==
    \E w \in Workers :
      pc[w] = "done" /\ pushes[w] = 5 /\ Rejected(w) = 5 /\ flag[w] = "False"

\* C2: once run has finished, on whatever path, the server it started is
\* stopped and the temporary file it created is gone.
C2_CleanupOnEveryPath ==
    \A w \in Workers :
      pc[w] = "done" =>
        /\ ~is_running(lbs[w])
        /\ ~(port.state = "listening" /\ port.owner = w /\ port.serving)
        /\ tmpFile[w] # "exists"

\* C4: from the moment wait_for_device raised TimeoutError the run pushes
\* nothing, restarts nothing and queries nothing any more, and it finishes
\* with the error event as its last event, without success.
C4_TimeoutEndsRun ==
    [][\A w \in Workers :
         exc[w] = "Timeout" =>
           /\ exc'[w] = "Timeout"
           /\ pushes'[w] = pushes[w]
           /\ restarts'[w] = restarts[w]
           /\ queries'[w] = queries[w]
           /\ pc'[w] \in {"except", "finally", "finally_file", "done"}
           /\ pc'[w] = "done" =>
                /\ events'[w][Len(events'[w])] = Ev("error", "no_reconnect", 0)
                /\ \A i \in 1..Len(events'[w]) : events'[w][i].kind # "success"]_vars

C4_Witness ==
    \E w \in Workers :
      pc[w] = "done" /\ exc[w] = "Timeout" /\ pushes[w] \in 2..4

\* C5 as stated: a flag read as False leads to no final restart and to the
\* retry report; any other value leads to one final restart and then to
\* the success event, with no further push.
C5_OtherValueEndsInSuccess ==
    \A w \in Workers :
      /\ (flag[w] = "False" /\ pc[w] \in {"retry", "push", "exhausted"})
           => /\ restarts[w] = pushes[w]
              /\ ~Emitted(w, "success")
              /\ pc[w] # "retry" => LastEvent(w) = Ev("status", "retry", queries[w])
      /\ (flag[w] \in FlagValues \ {"False"})
           => /\ pushes[w] = queries[w]
              /\ restarts[w] \in {pushes[w], pushes[w] + 1}
              /\ pc[w] = "done" => /\ restarts[w] = pushes[w] + 1
                                  /\ EndsWith(w, "success", "done")

\* C5 amended: a flag read as False leads to no final restart and to the
\* retry report n/5 (then to the next attempt, or to failure after the
\* fifth); any other value, None included, leads to exactly one final
\* restart and no further push or query, and the run ends with the success
\* event when that restart returns and with the error event when it raises.
C5_ReadinessDecides ==
    \A w \in Workers :
      /\ (flag[w] = "False" /\ pc[w] \in {"retry", "push", "exhausted"})
           => /\ restarts[w] = pushes[w]
              /\ ~Emitted(w, "success")
              /\ pc[w] # "retry" => LastEvent(w) = Ev("status", "retry", queries[w])
      /\ (flag[w] \in FlagValues \ {"False"})
           => /\ pushes[w] = queries[w]
              /\ restarts[w] \in {pushes[w], pushes[w] + 1}
              /\ pc[w] = "done" =>
                   /\ restarts[w] = pushes[w] + 1
                   /\ exc[w] = "none" => EndsWith(w, "success", "done")
                   /\ exc[w] # "none" => EndsWith(w, "error", "exception")

C5_Witness ==
    \E w \in Workers :
      /\ pc[w] = "done" /\ flag[w] = "None" /\ Rejected(w) = 2
      /\ EndsWith(w, "success", "done")

\* C6: when the snapshot says Activated the run emits success at once and
\* makes no push, no restart and no readiness query, nor a new connection.
C6_ActivatedTouchesNothing ==
    \A w \in Workers :
      snapshot[w] = "Activated" =>
        /\ EndsWith(w, "success", "already")
        /\ pushes[w] = 0 /\ restarts[w] = 0 /\ queries[w] = 0
        /\ connects[w] = 1
        /\ pc[w] \in {"finally", "finally_file", "done"}

C6_Witness ==
    \E w \in Workers : snapshot[w] = "Activated" /\ pc[w] = "done"

\* the characters a host and port are made of
InAuthority(c) == c \in {"x", "L", "H"}

RECURSIVE AuthorityEnd(_, _)
\* the last position of the run of host and port characters starting at i
AuthorityEnd(v, i) ==
    IF i + 1 <= Len(v) /\ InAuthority(v[i + 1]) THEN AuthorityEnd(v, i + 1) ELSE i

RECURSIVE RewriteFrom(_, _, _)
\* v from position i on, with the scheme, host and port of every URL in
\* it replaced by url and every other byte kept
RewriteFrom(v, i, url) ==
    IF i > Len(v) THEN <<>>
    ELSE IF /\ i + 3 <= Len(v)
            /\ v[i] = "H" /\ v[i + 1] = "/" /\ v[i + 2] = "/"
            /\ InAuthority(v[i + 3])
         THEN url \o RewriteFrom(v, AuthorityEnd(v, i + 3) + 1, url)
         ELSE <<v[i]>> \o RewriteFrom(v, i + 1, url)

Scanned(c) == c.tableOk /\ c.coltype \in {"TEXT", "BLOB"}

\* C11: in the text and binary columns of the tables that can be read,
\* patch(P, U) leaves a value without a URL byte-identical and replaces in
\* a value with URLs exactly the scheme, host and port of each URL by U,
\* keeping its path and query; every other value is left as it is.
C11_OnlyAuthorityRewritten ==
    stage >= 1 =>
      \A i \in DOMAIN payload :
        IF Scanned(payload[i])
        THEN out1[i] = [payload[i] EXCEPT
                          !.data = RewriteFrom(payload[i].data, 1, localUrl)]
        ELSE out1[i] = payload[i]

\* C12: when patch_payload_for_local_server raises after the temporary file
\* was made, the file is gone by the time the exception reaches run.
C12_FailedPatchLeavesNoFile ==
    \A w \in Workers : exc[w] = "PatchError" => tmpFile[w] # "exists"

-----------------------------------------------------------------------------
(* SpecWait: one call of wait_for_device(timeout).  Time is counted in      *)
(* whole seconds of the monotonic clock since `start` was read.  A          *)
(* connection attempt (create_using_usbmux and the mobilegestalt query)     *)
(* takes between 0 and MaxCallTime seconds and either yields a live handle  *)
(* or raises; the loop condition is evaluated only between two attempts.    *)

\* line 292: `while time.monotonic() - start < timeout`, and line 302
WfdCheck ==
    /\ wfdPc = "check"
    /\ wfdPc' = IF elapsed < timeout THEN "try" ELSE "raised"
    /\ UNCHANGED <<timeout, elapsed, polls, handle, guiVars, runVars, srvVars,
                   harnessVars, httpVars, patchVars>>

\* lines 293-299: one connection attempt; a live handle is returned at once
WfdPoll ==
    /\ wfdPc = "try"
    /\ polls' = polls + 1
    /\ \E d \in 0..MaxCallTime : elapsed' = elapsed + d
    /\ \E live \in BOOLEAN :
         IF live THEN wfdPc' = "returned" /\ handle' = polls + 1
         ELSE wfdPc' = "sleep" /\ UNCHANGED handle
    /\ UNCHANGED <<timeout, guiVars, runVars, srvVars, harnessVars, httpVars,
                   patchVars>>

\* lines 299-300: `except Exception: time.sleep(2)`
WfdSleep ==
    /\ wfdPc = "sleep"
    /\ elapsed' = elapsed + PollInterval
    /\ wfdPc' = "check"
    /\ UNCHANGED <<timeout, polls, handle, guiVars, runVars, srvVars,
                   harnessVars, httpVars, patchVars>>

\* line 291: start = time.monotonic()
InitWait ==
    /\ IdleRun /\ IdleHarness /\ IdleHttp /\ IdlePatch
    /\ lbs = [w \in Workers |-> NoServer]
    /\ port = FreePort
    /\ wfdPc = "check"
    /\ timeout \in 0..MaxTimeout
    /\ elapsed = 0 /\ polls = 0 /\ handle = 0

NextWait == WfdCheck \/ WfdPoll \/ WfdSleep

SpecWait == InitWait /\ [][NextWait]_vars

\* C13: wait_for_device returns the handle of the first attempt confirmed
\* live or raises TimeoutError, it has returned or raised no later than
\* timeout plus one poll interval after it started, and it does not raise
\* once a live handle was detected.
C13_ReturnsOrRaisesInTime ==
    /\ wfdPc = "returned" => handle = polls /\ handle >= 1
    /\ wfdPc = "raised" => handle = 0
    /\ wfdPc \in {"returned", "raised"} => elapsed <= timeout + PollInterval

\* C13, the parts of it that hold: the handle returned is that of the first
\* live attempt, which is the last attempt made; TimeoutError is raised only
\* when no attempt was live and the timeout has passed.
C13_FirstLiveOrTimeout ==
    /\ wfdPc = "returned" => handle = polls /\ handle >= 1
    /\ wfdPc = "raised" => handle = 0 /\ elapsed >= timeout
    /\ handle # 0 => wfdPc = "returned"

-----------------------------------------------------------------------------
(* Properties of LocalBackendServer.start (SpecServer) *)

\* C14: start() on a server that is already running is a no-op: no bind is
\* attempted, nothing is raised, and the object, its accept thread and the
\* listening socket are what they were.
C14_StartWhileRunningIsNoOp ==
    [][\A i \in Servers :
         (/\ nCalls' = nCalls + 1
          /\ lastCall'.op = "start" /\ lastCall'.inst = i
          /\ is_running(lbs[i])) =>
           /\ ~lastCall'.raised
           /\ nBinds' = nBinds
           /\ lbs' = lbs
           /\ port' = port]_vars

\* start() has returned early on a running server whose socket is listening
C14_Witness ==
    /\ nNoops >= 1
    /\ lastCall.op = "start" /\ ~lastCall.raised
    /\ is_running(lbs[lastCall.inst])
    /\ port.state = "listening" /\ port.owner = lastCall.inst /\ port.serving

-----------------------------------------------------------------------------
(* Properties of ActivationThread.run, continued (Spec) *)

Terminal(e) == e.kind \in {"success", "error"}

\* the terminal events worker w has emitted so far
Terminals(w) == {i \in DOMAIN events[w] : Terminal(events[w][i])}

\* C15: the success or error event is emitted only after teardown: once it
\* has been emitted the local server is stopped and the patched temporary
\* file is deleted.
C15_ReportAfterTeardown ==
    \A w \in Workers :
      Terminals(w) # {} =>
        /\ ~is_running(lbs[w])
        /\ tmpFile[w] # "exists"

\* C16: the local backend is prepared only after the activation state was
\* read and found Unactivated; when the device is already activated the
\* server is never started and no temporary file is made.
C16_CheckStateBeforeBackend ==
    \A w \in Workers :
      /\ (is_running(lbs[w]) \/ tmpFile[w] # "none") =>
           snapshot[w] = "Unactivated"
      /\ snapshot[w] = "Activated" =>
           /\ tmpFile[w] = "none"
           /\ \A i \in DOMAIN events[w] : events[w][i].text # "started"

\* C18: the sleep after the rejection of attempt i (i = 0..4) is 10 + 5*i
\* seconds, longer after each later attempt.
C18_BackoffGrows ==
    \A w \in Workers :
      /\ \A k \in DOMAIN backoff[w] : backoff[w][k] = 10 + 5 * (k - 1)
      /\ \A j, k \in DOMAIN backoff[w] : j < k => backoff[w][j] < backoff[w][k]

\* the try block of run has been left
AfterTry(w) == pc[w] \in {"finally", "finally_file", "done"}

\* C19: when LocalBackendServer.start or patch_payload_for_local_server
\* fails, the run opens no device connection, pushes nothing and restarts
\* nothing, and it ends with the error event.
C19_PrepareFailureIsFatal ==
    \A w \in Workers :
      exc[w] \in {"BindError", "PatchError"} =>
        /\ connects[w] = 0 /\ pushes[w] = 0
        /\ restarts[w] = 0 /\ queries[w] = 0
        /\ pc[w] = "except" \/ AfterTry(w)
        /\ ~Emitted(w, "success")
        /\ AfterTry(w) => EndsWith(w, "error", "exception")

\* a run has finished after its patch call failed inside the try block
C19_Witness ==
    \E w \in Workers :
      /\ pc[w] = "done" /\ exc[w] = "PatchError"
      /\ tmpFile[w] = "removed"
      /\ EndsWith(w, "error", "exception")

\* C20: a run emits exactly one terminal event: none before it leaves the
\* try block, one of success and error once it has, and no event after it.
C20_ExactlyOneTerminalEvent ==
    \A w \in Workers :
      /\ Cardinality(Terminals(w)) <= 1
      /\ Terminals(w) # {} <=> AfterTry(w)
      /\ Terminals(w) # {} => Terminal(LastEvent(w))

\* a run has finished after all five attempts were rejected, with the
\* error event as its only terminal event, after five retry messages
C20_Witness ==
    \E w \in Workers :
      /\ pc[w] = "done" /\ Rejected(w) = 5
      /\ Terminals(w) = {Len(events[w])}
      /\ LastEvent(w).kind = "error"

-----------------------------------------------------------------------------
(* SpecGui: the GUI and its workers as in Spec, with up to MaxClicks        *)
(* ActivationThread objects, so that two runs can meet.                     *)

Clicks == 1..MaxClicks

InitGui ==
    /\ IdleRunOn(Clicks)
    /\ lbs = [w \in Clicks |-> NoServer]
    /\ port \in {FreePort, ForeignPort}
    /\ IdleHarness /\ IdleHttp /\ IdlePatch /\ IdleWait

NextGui ==
    \/ PollDevice
    \/ StartActivation
    \/ OnSignal
    \/ Finalize
    \/ \E w \in Clicks :
         \/ ServerStart(w) \/ Resolve(w) \/ Patch(w) \/ Connect(w)
         \/ CheckState(w) \/ Push(w) \/ Restart(w) \/ WaitLive(w)
         \/ WaitTimeout(w) \/ Query(w) \/ FinalRestart(w) \/ Retry(w)
         \/ Exhausted(w) \/ Except(w) \/ FinallyServer(w) \/ FinallyFile(w)

SpecGui == InitGui /\ [][NextGui]_vars

\* run() of worker w has been entered and has not returned
Executing(w) == pc[w] \notin {"idle", "done"}

\* C17: at any time at most one run is executing, cleanup included, and at
\* most one LocalBackendServer is running.
C17_OneRunAtATime ==
    /\ \A v, w \in Clicks : Executing(v) /\ Executing(w) => v = w
    /\ \A v, w \in Clicks : is_running(lbs[v]) /\ is_running(lbs[w]) => v = w

====
